---------------------------- MODULE Spec2Model ----------------------------
(***************************************************************************)
(* A model of the GQL execution core: the statement pipeline               *)
(* (src/src/statement.rs), the expression evaluator                        *)
(* (src/src/expression.rs) and the tokenizer (src/src/tokenizer.rs).       *)
(*                                                                         *)
(* A text value (Rust String) is a sequence of characters, each character  *)
(* a one-character string.  A record (GQLObject) is a function from the    *)
(* field names it contains to text values.  A panic (unwrap on None, a     *)
(* slice off a character boundary) ends the run: status = "panic".         *)
(***************************************************************************)
EXTENDS Integers, Sequences, FiniteSets, Bags, TLC

VARIABLES
    objects,       \* the shared buffer: &mut Vec<GQLObject>
    status,        \* "ok", or "panic" once a statement has panicked
    pre,           \* the buffer as it was before the last statement
    last,          \* the last statement executed (NoStatement before any)
    base,          \* PipelineSpec: the buffer as the last Select left it
    history,       \* PipelineSpec: the statements executed since then
    source_calls,  \* the calls of select_gql_objects made by the last statement
    fetched,       \* what select_gql_objects returned to the last statement
    script,        \* tokenize: the input text
    position,      \* tokenize: the cursor
    column_start,  \* tokenize: the cursor at the start of the iteration
    tokens,        \* tokenize: the tokens pushed so far
    iterations,    \* tokenize: iterations of the scan loop so far
    returned,      \* tokenize: Running, or what the call returned
    expression,    \* ExprSpec: the expression under evaluation
    record,        \* ExprSpec: the record it is evaluated on
    evaluated      \* ExprSpec: NotEvaluated, or what evaluate came to

pipeVars == <<objects, status, pre, last, base, history, source_calls, fetched>>
tokVars == <<script, position, column_start, tokens, iterations, returned>>
exprVars == <<expression, record, evaluated>>
vars == <<objects, status, pre, last, base, history, source_calls, fetched,
          script, position, column_start, tokens, iterations, returned,
          expression, record, evaluated>>

-----------------------------------------------------------------------------
(* Bounds *)

\* the longest buffer
MaxLen == 3
\* the longest pipeline recorded in history (PipelineSpec)
MaxStmts == 2
\* the longest enumerated script (TokSpec)
MaxScript == 3
\* the longest enumerated text of a string literal (ExprSpec)
MaxText == 2

-----------------------------------------------------------------------------
(* Text *)

Min(a, b) == IF a <= b THEN a ELSE b

\* char as u32: the Unicode scalar value of each character the model uses
\* ("U+00E9" is the letter e with acute, "U+0663" the Arabic-Indic digit three)
CodePoint(c) ==
    CASE c = "\t" -> 9   [] c = "\n" -> 10  [] c = " " -> 32  [] c = "\"" -> 34
      [] c = "#" -> 35   [] c = "&" -> 38   [] c = "(" -> 40  [] c = ")" -> 41
      [] c = "*" -> 42   [] c = "," -> 44   [] c = "0" -> 48  [] c = "1" -> 49
      [] c = "2" -> 50   [] c = "3" -> 51   [] c = "9" -> 57  [] c = "=" -> 61
      [] c = "B" -> 66   [] c = "S" -> 83   [] c = "a" -> 97  [] c = "b" -> 98
      [] c = "c" -> 99   [] c = "d" -> 100  [] c = "e" -> 101 [] c = "f" -> 102
      [] c = "h" -> 104  [] c = "i" -> 105  [] c = "l" -> 108 [] c = "m" -> 109
      [] c = "o" -> 111  [] c = "r" -> 114  [] c = "s" -> 115 [] c = "t" -> 116
      [] c = "u" -> 117  [] c = "w" -> 119  [] c = "y" -> 121 [] c = "|" -> 124
      [] c = "U+00E9" -> 233  [] c = "U+0663" -> 1635

\* an order by length first: the numeric order of digit texts
cmp_shortlex(a, b) ==
    IF Len(a) < Len(b) THEN "Less"
    ELSE IF Len(a) > Len(b) THEN "Greater"
    ELSE IF a = b THEN "Equal"
    ELSE LET k == CHOOSE i \in 1..Len(a) :
                      a[i] # b[i] /\ \A j \in 1..(i - 1) : a[j] = b[j]
         IN  IF CodePoint(a[k]) < CodePoint(b[k]) THEN "Less" ELSE "Greater"

\* Ord: the result of String::cmp, which compares the UTF-8 bytes
\* lexicographically; on valid UTF-8 that is the order of the scalar values
RECURSIVE cmp(_, _)
cmp(a, b) ==
    IF a = <<>> /\ b = <<>> THEN "Equal"
    ELSE IF a = <<>> THEN "Less"
    ELSE IF b = <<>> THEN "Greater"
    ELSE IF CodePoint(Head(a)) < CodePoint(Head(b)) THEN "Less"
    ELSE IF CodePoint(Head(a)) > CodePoint(Head(b)) THEN "Greater"
    ELSE cmp(Tail(a), Tail(b))

\* bool::to_string
T_true == <<"t", "r", "u", "e">>
T_false == <<"f", "a", "l", "s", "e">>
to_string(b) == IF b THEN T_true ELSE T_false

\* str::starts_with, str::ends_with, str::contains
starts_with(value, expected) ==
    /\ Len(expected) <= Len(value)
    /\ SubSeq(value, 1, Len(expected)) = expected
ends_with(value, expected) ==
    /\ Len(expected) <= Len(value)
    /\ SubSeq(value, Len(value) - Len(expected) + 1, Len(value)) = expected
contains(value, expected) ==
    \E i \in 0..(Len(value) - Len(expected)) :
        SubSeq(value, i + 1, i + Len(expected)) = expected

-----------------------------------------------------------------------------
(* Expressions: src/src/expression.rs *)

\* the outcome of evaluate: a text value, or a panic (unwrap on None)
Value(v) == [panic |-> FALSE, value |-> v]
Panicked == [panic |-> TRUE, value |-> <<>>]

StringExpression(value) == [type |-> "String", value |-> value]
\* value holds the field name as a one-element tuple, so that the value of
\* every node is a sequence
SymbolExpression(value) == [type |-> "Symbol", value |-> <<value>>]
NotExpression(right) == [type |-> "Not", right |-> right]
ComparisonExpression(left, operator, right) ==
    [type |-> "Comparison", left |-> left, operator |-> operator, right |-> right]
CheckExpression(left, operator, right) ==
    [type |-> "Check", left |-> left, operator |-> operator, right |-> right]
LogicalExpression(left, operator, right) ==
    [type |-> "Logical", left |-> left, operator |-> operator, right |-> right]
CallExpression(left, function_name) ==
    [type |-> "Call", left |-> left, function_name |-> function_name]

ComparisonOperator ==
    {"Greater", "GreaterEqual", "Less", "LessEqual", "Equal", "NotEqual"}
CheckOperator == {"Contains", "StartsWith", "EndsWith", "Matches"}
LogicalOperator == {"Or", "And", "Xor"}

\* Regex::new(pattern).is_err(), for patterns of literal characters and
\* groups: the pattern is an error when its parentheses do not balance
RECURSIVE RegexDepth(_, _)
RegexDepth(pattern, depth) ==
    IF depth < 0 THEN depth
    ELSE IF pattern = <<>> THEN depth
    ELSE IF Head(pattern) = "(" THEN RegexDepth(Tail(pattern), depth + 1)
    ELSE IF Head(pattern) = ")" THEN RegexDepth(Tail(pattern), depth - 1)
    ELSE RegexDepth(Tail(pattern), depth)
RegexIsErr(pattern) == RegexDepth(pattern, 0) # 0

\* Regex::is_match, for the same patterns: an unanchored search for the
\* literal characters of the pattern (a group of literals matches them)
RegexLiteral(pattern) == SelectSeq(pattern, LAMBDA c : c \notin {"(", ")"})
RegexIsMatch(pattern, value) == contains(value, RegexLiteral(pattern))

\* TRANSFORMATIONS: the registry of named text transformations
Whitespace == {" ", "\n", "\t"}
RECURSIVE trim_start(_)
trim_start(s) ==
    IF s # <<>> /\ Head(s) \in Whitespace THEN trim_start(Tail(s)) ELSE s
RECURSIVE trim_end(_)
trim_end(s) ==
    IF s # <<>> /\ s[Len(s)] \in Whitespace
    THEN trim_end(SubSeq(s, 1, Len(s) - 1)) ELSE s
trim(s) == trim_end(trim_start(s))
TransformationNames == {"trim"}
Transformation(name, s) == CASE name = "trim" -> trim(s)

\* ComparisonExpression::evaluate: the operator applied to the Ordering
ComparisonResult(operator, result) ==
    CASE operator = "Greater" -> result = "Greater"
      [] operator = "GreaterEqual" -> result \in {"Greater", "Equal"}
      [] operator = "Less" -> result = "Less"
      [] operator = "LessEqual" -> result \in {"Less", "Equal"}
      [] operator = "Equal" -> result = "Equal"
      [] operator = "NotEqual" -> ~(result = "Equal")

\* matches that searches for the pattern as literal text
CheckResult_literal(operator, value, expected) ==
    CASE operator = "Contains" -> to_string(contains(value, expected))
      [] operator = "StartsWith" -> to_string(starts_with(value, expected))
      [] operator = "EndsWith" -> to_string(ends_with(value, expected))
      [] operator = "Matches" -> to_string(contains(value, expected))

\* CheckExpression::evaluate: the operator applied to the two texts
CheckResult(operator, value, expected) ==
    CASE operator = "Contains" -> to_string(contains(value, expected))
      [] operator = "StartsWith" -> to_string(starts_with(value, expected))
      [] operator = "EndsWith" -> to_string(ends_with(value, expected))
      [] operator = "Matches" ->
            IF RegexIsErr(expected) THEN T_false
            ELSE to_string(RegexIsMatch(expected, value))

\* LogicalExpression::evaluate: the operator applied to the two booleans
LogicalResult(operator, lhs, rhs) ==
    CASE operator = "And" -> lhs /\ rhs
      [] operator = "Or" -> lhs \/ rhs
      [] operator = "Xor" -> ~(lhs <=> rhs)

\* a lookup that gives the empty text for a missing field
SymbolLookup_or_default(object, name) ==
    IF name \in DOMAIN object THEN Value(object[name]) ELSE Value(<<>>)

\* SymbolExpression::evaluate: object.attributes.get(&self.value).unwrap()
SymbolLookup(object, name) ==
    IF name \in DOMAIN object THEN Value(object[name]) ELSE Panicked

\* a negation that is "true" for the operand "false" only
NotResult_of_false(v) == to_string(v = T_false)

\* NotExpression::evaluate: (!value.eq("true")).to_string()
NotResult(v) == to_string(~(v = T_true))

\* a logical expression that always evaluates both operands
ShortCircuit_never(operator, lhs) == FALSE

\* LogicalExpression::evaluate: whether it returns before evaluating right
ShortCircuit(operator, lhs) ==
    \/ operator = "And" /\ ~lhs
    \/ operator = "Or" /\ lhs

\* Expression::evaluate, by the type of the node
RECURSIVE evaluate(_, _)
evaluate(e, object) ==
    CASE e.type = "String" -> Value(e.value)
      [] e.type = "Symbol" -> SymbolLookup(object, e.value[1])
      [] e.type = "Not" ->
            LET value == evaluate(e.right, object)
            IN  IF value.panic THEN Panicked
                ELSE Value(NotResult(value.value))
      [] e.type = "Comparison" ->
            LET value == evaluate(e.left, object)
                expected == evaluate(e.right, object)
            IN  IF value.panic \/ expected.panic THEN Panicked
                ELSE Value(to_string(ComparisonResult(e.operator,
                                        cmp(value.value, expected.value))))
      [] e.type = "Check" ->
            LET value == evaluate(e.left, object)
                expected == evaluate(e.right, object)
            IN  IF value.panic \/ expected.panic THEN Panicked
                ELSE Value(CheckResult(e.operator, value.value, expected.value))
      [] e.type = "Logical" ->
            LET left == evaluate(e.left, object)
                lhs == left.value = T_true
            IN  IF left.panic THEN Panicked
                ELSE IF ShortCircuit(e.operator, lhs)
                     THEN Value(IF e.operator = "And" THEN T_false ELSE T_true)
                ELSE LET right == evaluate(e.right, object)
                         rhs == right.value = T_true
                     IN  IF right.panic THEN Panicked
                         ELSE Value(to_string(LogicalResult(e.operator, lhs, rhs)))
      [] e.type = "Call" ->
            LET lhs == evaluate(e.left, object)
            IN  IF lhs.panic THEN Panicked
                ELSE IF e.function_name \notin TransformationNames THEN Panicked
                ELSE Value(Transformation(e.function_name, lhs.value))

-----------------------------------------------------------------------------
(* Statements: src/src/statement.rs *)

SelectStatement(table_name, fields) ==
    [kind |-> "Select", table_name |-> table_name, fields |-> fields]
WhereStatement(condition) == [kind |-> "Where", condition |-> condition]
LimitStatement(count) == [kind |-> "Limit", count |-> count]
OffsetStatement(count) == [kind |-> "Offset", count |-> count]
OrderByStatement(field_name) == [kind |-> "OrderBy", field_name |-> field_name]
NoStatement == [kind |-> "None"]

\* what execute leaves behind: the buffer, and whether it panicked
Outcome(objs, panic) == [objects |-> objs, panic |-> panic]

\* for element in elements { objects.push(element) }
RECURSIVE PushAll(_, _)
PushAll(objs, elements) ==
    IF elements = <<>> THEN objs
    ELSE PushAll(Append(objs, Head(elements)), Tail(elements))

\* Vec::drain(start..end): removes the elements at 0-based start..end
drain(objs, start, end) ==
    SubSeq(objs, 1, start) \o SubSeq(objs, end + 1, Len(objs))

\* the arguments SelectStatement::execute hands to select_gql_objects
SelectCall(stmt) == [table_name |-> stmt.table_name, fields |-> stmt.fields]

\* a Select that replaces the buffer instead of appending to it
SelectStatement_execute_replace(objs, elements) ==
    {Outcome(PushAll(<<>>, elements), FALSE)}

\* SelectStatement::execute, elements being what select_gql_objects returned
SelectStatement_execute(objs, elements) ==
    {Outcome(PushAll(objs, elements), FALSE)}

\* a filter that drops only the records whose condition is "false"
RECURSIVE FilterCollect_not_false(_, _)
FilterCollect_not_false(condition, objs) ==
    IF objs = <<>> THEN <<>>
    ELSE IF evaluate(condition, Head(objs)).value # T_false
         THEN <<Head(objs)>> \o FilterCollect_not_false(condition, Tail(objs))
         ELSE FilterCollect_not_false(condition, Tail(objs))

\* objects.iter().filter(|o| condition.evaluate(o).eq("true")).cloned().collect()
RECURSIVE FilterCollect(_, _)
FilterCollect(condition, objs) ==
    IF objs = <<>> THEN <<>>
    ELSE IF evaluate(condition, Head(objs)).value = T_true
         THEN <<Head(objs)>> \o FilterCollect(condition, Tail(objs))
         ELSE FilterCollect(condition, Tail(objs))

\* a Where without objects.clear(): the survivors are pushed after the input
WhereStatement_execute_no_clear(condition, objs) ==
    IF \E i \in 1..Len(objs) : evaluate(condition, objs[i]).panic
    THEN {Outcome(objs, TRUE)}
    ELSE {Outcome(PushAll(objs, FilterCollect(condition, objs)), FALSE)}

\* WhereStatement::execute: a panic of evaluate leaves objects as it was,
\* the filter running before objects.clear()
WhereStatement_execute(condition, objs) ==
    IF \E i \in 1..Len(objs) : evaluate(condition, objs[i]).panic
    THEN {Outcome(objs, TRUE)}
    ELSE {Outcome(PushAll(<<>>, FilterCollect(condition, objs)), FALSE)}

\* a Limit that drains from count + 1
LimitStatement_execute_off_by_one(count, objs) ==
    IF count + 1 <= Len(objs)
    THEN {Outcome(drain(objs, count + 1, Len(objs)), FALSE)}
    ELSE {Outcome(objs, FALSE)}

\* LimitStatement::execute
LimitStatement_execute(count, objs) ==
    IF count <= Len(objs)
    THEN {Outcome(drain(objs, count, Len(objs)), FALSE)}
    ELSE {Outcome(objs, FALSE)}

\* an Offset without cmp::min: drain(0..count) panics past the end
OffsetStatement_execute_no_min(count, objs) ==
    IF count > Len(objs) THEN {Outcome(objs, TRUE)}
    ELSE {Outcome(drain(objs, 0, count), FALSE)}

\* OffsetStatement::execute
OffsetStatement_execute(count, objs) ==
    {Outcome(drain(objs, 0, Min(count, Len(objs))), FALSE)}

\* the stable sort of slice::sort_by_key: each element in turn is moved left
\* past the elements whose key is greater than its own
RECURSIVE insert_tail(_, _, _)
insert_tail(sorted, object, field_name) ==
    IF sorted = <<>> THEN <<object>>
    ELSE IF cmp(object[field_name], sorted[Len(sorted)][field_name]) = "Less"
         THEN Append(insert_tail(SubSeq(sorted, 1, Len(sorted) - 1),
                                 object, field_name),
                     sorted[Len(sorted)])
         ELSE Append(sorted, object)
RECURSIVE sort_prefix(_, _, _)
sort_prefix(objs, n, field_name) ==
    IF n = 0 THEN <<>>
    ELSE insert_tail(sort_prefix(objs, n - 1, field_name), objs[n], field_name)
\* a sort that leaves the slice as it is
sort_by_key_unsorted(objs, field_name) == objs
sort_by_key(objs, field_name) == sort_prefix(objs, Len(objs), field_name)

\* the orders a sort that panicked midway may leave the slice in
Rearrangements(objs) ==
    {[i \in 1..Len(objs) |-> objs[p[i]]] : p \in Permutations(1..Len(objs))}

\* an OrderBy that sorts when any record, not the first, contains the field
OrderByStatement_execute_any(field_name, objs) ==
    IF objs = <<>> THEN {Outcome(objs, FALSE)}
    ELSE IF \E i \in 1..Len(objs) : field_name \in DOMAIN objs[i]
    THEN IF \E i \in 1..Len(objs) : field_name \notin DOMAIN objs[i]
         THEN {Outcome(r, TRUE) : r \in Rearrangements(objs)}
         ELSE {Outcome(sort_by_key(objs, field_name), FALSE)}
    ELSE {Outcome(objs, FALSE)}

\* OrderByStatement::execute: the key closure unwraps the field of every
\* record the sort compares, which is every record of a slice of two or more
OrderByStatement_execute(field_name, objs) ==
    IF objs = <<>> THEN {Outcome(objs, FALSE)}
    ELSE IF field_name \in DOMAIN objs[1]
    THEN IF \E i \in 1..Len(objs) : field_name \notin DOMAIN objs[i]
         THEN {Outcome(r, TRUE) : r \in Rearrangements(objs)}
         ELSE {Outcome(sort_by_key(objs, field_name), FALSE)}
    ELSE {Outcome(objs, FALSE)}

-----------------------------------------------------------------------------
(* Inputs *)

\* every sequence over S of length at most n
BoundedSeq(S, n) == UNION {[1..k -> S] : k \in 0..n}

R1 == [id |-> <<"1">>]
R2 == [id |-> <<"2">>]
R3 == [id |-> <<"3">>]
R1t == [id |-> <<"1">>, name |-> T_true]
R10f == [id |-> <<"1", "0">>, name |-> T_false]
Rabc == [name |-> <<"a", "b", "c">>]

\* the records the external source may return
Records == {R1, R2, R3, R1t, R10f, Rabc}
\* the records it may return in PipelineSpec
IdRecords == {R1, R2, R3}

Tables == {"commits", "branches"}
FieldLists == {<<"id">>, <<"id", "name">>}
FieldNames == {"id", "name"}
Counts == 0..(MaxLen + 1)

IdLessThan2 ==
    ComparisonExpression(SymbolExpression("id"), "Less", StringExpression(<<"2">>))
\* the conditions of the Where statements
Conditions ==
    { SymbolExpression("name"),
      StringExpression(T_true),
      IdLessThan2,
      NotExpression(SymbolExpression("name")),
      LogicalExpression(ComparisonExpression(SymbolExpression("id"), "Equal",
                                             StringExpression(<<"1">>)),
                        "And", SymbolExpression("name")) }

-----------------------------------------------------------------------------
(* The pipeline: one action for each statement's execute *)

NoExpression == [type |-> "None"]
NotEvaluated == [panic |-> FALSE, value |-> <<>>, pending |-> TRUE]

ExprIdle ==
    /\ expression = NoExpression
    /\ record = <<>>
    /\ evaluated = NotEvaluated

TokIdle ==
    /\ script = <<>>
    /\ position = 0
    /\ column_start = 0
    /\ tokens = <<>>
    /\ iterations = 0
    /\ returned = [kind |-> "NotCalled"]

Init ==
    /\ objects = <<>>
    /\ status = "ok"
    /\ pre = <<>>
    /\ last = NoStatement
    /\ base = <<>>
    /\ history = <<>>
    /\ source_calls = <<>>
    /\ fetched = <<>>
    /\ TokIdle
    /\ ExprIdle

\* stmt runs on the buffer and leaves one of outcomes
Execute(stmt, outcomes) ==
    /\ status = "ok"
    /\ \E o \in outcomes :
          /\ objects' = o.objects
          /\ status' = IF o.panic THEN "panic" ELSE "ok"
    /\ pre' = objects
    /\ last' = stmt
    /\ UNCHANGED <<tokVars, exprVars>>

\* Select is the producing statement: it runs before the statements that
\* shrink the buffer
ExecuteSelect(stmt, elements) ==
    /\ last.kind \in {"None", "Select"}
    /\ Execute(stmt, SelectStatement_execute(objects, elements))
    /\ source_calls' = <<SelectCall(stmt)>>
    /\ fetched' = elements

ExecuteShrink(stmt, outcomes) ==
    /\ Execute(stmt, outcomes)
    /\ source_calls' = <<>>
    /\ fetched' = <<>>

Select ==
    \E table_name \in Tables, fields \in FieldLists,
       elements \in BoundedSeq(Records, MaxLen - Len(objects)) :
        /\ ExecuteSelect(SelectStatement(table_name, fields), elements)
        /\ UNCHANGED <<base, history>>

Where ==
    \E condition \in Conditions :
        /\ ExecuteShrink(WhereStatement(condition),
                         WhereStatement_execute(condition, objects))
        /\ UNCHANGED <<base, history>>

Limit ==
    \E count \in Counts :
        /\ ExecuteShrink(LimitStatement(count),
                         LimitStatement_execute(count, objects))
        /\ UNCHANGED <<base, history>>

Offset ==
    \E count \in Counts :
        /\ ExecuteShrink(OffsetStatement(count),
                         OffsetStatement_execute(count, objects))
        /\ UNCHANGED <<base, history>>

OrderBy ==
    \E field_name \in FieldNames :
        /\ ExecuteShrink(OrderByStatement(field_name),
                         OrderByStatement_execute(field_name, objects))
        /\ UNCHANGED <<base, history>>

Next == Select \/ Where \/ Limit \/ Offset \/ OrderBy

Spec == Init /\ [][Next]_vars

-----------------------------------------------------------------------------
(* The pipeline with its statements recorded: PipelineSpec *)

PipelineStatements ==
    {WhereStatement(IdLessThan2), OrderByStatement("id")}
    \cup {LimitStatement(count) : count \in Counts}
    \cup {OffsetStatement(count) : count \in Counts}

\* Statement::execute, by the kind of the statement
execute(stmt, objs) ==
    CASE stmt.kind = "Where" -> WhereStatement_execute(stmt.condition, objs)
      [] stmt.kind = "Limit" -> LimitStatement_execute(stmt.count, objs)
      [] stmt.kind = "Offset" -> OffsetStatement_execute(stmt.count, objs)
      [] stmt.kind = "OrderBy" -> OrderByStatement_execute(stmt.field_name, objs)

PipelineSelect ==
    \E table_name \in Tables, fields \in FieldLists,
       elements \in BoundedSeq(IdRecords, MaxLen - Len(objects)) :
        /\ ExecuteSelect(SelectStatement(table_name, fields), elements)
        /\ base' = objects'
        /\ history' = <<>>

PipelineStatement ==
    \E stmt \in PipelineStatements :
        /\ Len(history) < MaxStmts
        /\ ExecuteShrink(stmt, execute(stmt, objects))
        /\ history' = Append(history, stmt)
        /\ UNCHANGED base

PipelineNext == PipelineSelect \/ PipelineStatement

PipelineSpec == Init /\ [][PipelineNext]_vars

-----------------------------------------------------------------------------
(* Claims about the statements *)

B312 == <<R3, R1, R2>>

\* how many times r occurs in objs
Count(objs, r) == Cardinality({i \in 1..Len(objs) : objs[i] = r})

\* out is objs sorted ascending by the text of field_name, records of equal
\* text in their order in objs
IsStableSortOf(out, objs, field_name) ==
    /\ Len(out) = Len(objs)
    /\ \E p \in Permutations(1..Len(objs)) :
          /\ \A i \in 1..Len(objs) : out[i] = objs[p[i]]
          /\ \A i \in 1..(Len(objs) - 1) :
                LET order == cmp(out[i][field_name], out[i + 1][field_name])
                IN  /\ order # "Greater"
                    /\ order = "Equal" => p[i] < p[i + 1]

\* C1: on the buffer [{id:"3"},{id:"1"},{id:"2"}], OrderBy("id") and then
\* Limit(2) complete and leave [{id:"1"},{id:"2"}]: the statements take
\* effect in the order listed.
C1_OrderByThenLimit ==
    (base = B312 /\ history = <<OrderByStatement("id"), LimitStatement(2)>>)
        => (status = "ok" /\ objects = <<R1, R2>>)

C1_Witness ==
    /\ base = B312
    /\ history = <<OrderByStatement("id"), LimitStatement(2)>>
    /\ status = "ok"

\* C2 as stated: on the buffer [{id:"3"},{id:"1"},{id:"2"}], Limit(2) and
\* then OrderBy("id") leave [{id:"2"},{id:"3"}].
C2_LimitThenOrderBy_Original ==
    (base = B312 /\ history = <<LimitStatement(2), OrderByStatement("id")>>)
        => (status = "ok" /\ objects = <<R2, R3>>)

\* C2 as amended: on the buffer [{id:"3"},{id:"1"},{id:"2"}], Limit(2) and
\* then OrderBy("id") leave [{id:"1"},{id:"3"}]: Limit keeps the two leading
\* records, 3 and 1, and OrderBy sorts those.
C2_LimitThenOrderBy ==
    (base = B312 /\ history = <<LimitStatement(2), OrderByStatement("id")>>)
        => (status = "ok" /\ objects = <<R1, R3>>)

C2_Witness ==
    /\ base = B312
    /\ history = <<LimitStatement(2), OrderByStatement("id")>>
    /\ status = "ok"

\* C3: when the condition evaluates without failure on every record, Where
\* completes and leaves exactly the records whose condition evaluates to the
\* text "true", in their original order and unchanged.
C3_WhereKeepsTrue ==
    (/\ last.kind = "Where"
     /\ \A i \in 1..Len(pre) : ~evaluate(last.condition, pre[i]).panic)
        => /\ status = "ok"
           /\ objects = SelectSeq(pre, LAMBDA r :
                            evaluate(last.condition, r) = Value(T_true))

C3_Witness ==
    /\ last.kind = "Where"
    /\ status = "ok"
    /\ \E i \in 1..Len(pre) : evaluate(last.condition, pre[i]) = Value(T_true)
    /\ \E i \in 1..Len(pre) : evaluate(last.condition, pre[i]) = Value(T_false)
    /\ \E i \in 1..Len(pre) :
          evaluate(last.condition, pre[i]).value \notin {T_true, T_false}
    /\ Len(objects) = 1

\* C4: Limit(n) on a buffer of length L leaves its first min(n, L) records in
\* their order; when n >= L the buffer is unchanged.
C4_LimitKeepsLeading ==
    last.kind = "Limit"
        => /\ status = "ok"
           /\ objects = SubSeq(pre, 1, Min(last.count, Len(pre)))
           /\ last.count >= Len(pre) => objects = pre

C4_Witness ==
    /\ last.kind = "Limit"
    /\ status = "ok"
    /\ Len(pre) = 3
    /\ last.count > Len(pre)
    /\ objects = pre

\* C5: Offset(n) on a buffer of length L removes its first min(n, L) records
\* and keeps the rest in their order; when n >= L it leaves the empty buffer
\* and raises no error.
C5_OffsetDropsLeading ==
    last.kind = "Offset"
        => /\ status = "ok"
           /\ objects = SubSeq(pre, Min(last.count, Len(pre)) + 1, Len(pre))
           /\ last.count >= Len(pre) => objects = <<>>

C5_Witness ==
    /\ last.kind = "Offset"
    /\ status = "ok"
    /\ Len(pre) = 3
    /\ last.count > Len(pre)
    /\ objects = <<>>

\* C6: on a non-empty buffer whose first record contains the field, whatever
\* the other records contain, OrderBy(field) completes and leaves the buffer
\* stably sorted ascending by the text of that field.
C6_OrderBySorts ==
    (/\ last.kind = "OrderBy"
     /\ pre # <<>>
     /\ last.field_name \in DOMAIN pre[1])
        => /\ status = "ok"
           /\ IsStableSortOf(objects, pre, last.field_name)

\* C7: on an empty buffer, or one whose first record does not contain the
\* field, OrderBy(field) leaves the buffer unchanged and raises no error,
\* whether or not later records contain the field.
C7_OrderByNoOp ==
    (/\ last.kind = "OrderBy"
     /\ (pre = <<>> \/ last.field_name \notin DOMAIN pre[1]))
        => (status = "ok" /\ objects = pre)

C7_Witness ==
    /\ last.kind = "OrderBy"
    /\ status = "ok"
    /\ Len(pre) = 3
    /\ last.field_name \notin DOMAIN pre[1]
    /\ last.field_name \in DOMAIN pre[2]
    /\ last.field_name \in DOMAIN pre[3]
    /\ cmp(pre[2][last.field_name], pre[3][last.field_name]) = "Greater"

\* C8: after any sequence of Where, Limit, Offset and OrderBy statements that
\* completes, the buffer holds no more records than before the sequence and
\* each record of it, fields unchanged, as often at most as it was there.
C8_OnlyShrinks ==
    status = "ok"
        => /\ Len(objects) <= Len(base)
           /\ \A i \in 1..Len(objects) :
                 Count(objects, objects[i]) <= Count(base, objects[i])

C8_Witness ==
    /\ status = "ok"
    /\ Len(history) = 2
    /\ history[1].kind = "OrderBy"
    /\ history[2].kind = "Offset"
    /\ Len(base) = 3
    /\ Len(objects) = 2
    /\ objects # SubSeq(base, 2, 3)

\* C9: Select appends the records the external source returned, in the order
\* returned, after the records already in the buffer, which stay as they
\* are; the source is called once, with the statement's table name and field
\* list.
C9_SelectAppends ==
    last.kind = "Select"
        => /\ status = "ok"
           /\ objects = pre \o fetched
           /\ source_calls =
                <<[table_name |-> last.table_name, fields |-> last.fields]>>

C9_Witness ==
    /\ last.kind = "Select"
    /\ status = "ok"
    /\ pre # <<>>
    /\ Len(fetched) = 2
    /\ fetched[1] # fetched[2]
    /\ last.fields = <<"id", "name">>

-----------------------------------------------------------------------------
(* The tokenizer: src/src/tokenizer.rs *)

\* char::is_alphabetic and char::is_numeric, on the characters of CodePoint
Alphabetic ==
    {"B", "S", "a", "b", "c", "d", "e", "f", "h", "i", "l", "m", "o", "r", "s",
     "t", "u", "w", "y", "U+00E9"}
Numeric == {"0", "1", "2", "3", "9", "U+0663"}
is_alphabetic(c) == c \in Alphabetic
is_numeric(c) == c \in Numeric

\* char::len_utf8
len_utf8(c) ==
    IF CodePoint(c) < 128 THEN 1
    ELSE IF CodePoint(c) < 2048 THEN 2
    ELSE IF CodePoint(c) < 65536 THEN 3
    ELSE 4

\* the byte offset of the character of 0-based index i (str::len when i
\* is the number of characters)
RECURSIVE ByteOffset(_, _)
ByteOffset(text, i) ==
    IF i = 0 THEN 0 ELSE ByteOffset(text, i - 1) + len_utf8(text[i])

\* str::is_char_boundary
is_char_boundary(text, index) ==
    \E i \in 0..Len(text) : ByteOffset(text, i) = index

\* &script[start..end]: the indices are byte offsets, and the slice panics
\* when they are out of order, past the end or inside a character
Slice(text, start, end) ==
    IF start <= end /\ is_char_boundary(text, start) /\ is_char_boundary(text, end)
    THEN LET from == CHOOSE i \in 0..Len(text) : ByteOffset(text, i) = start
             to == CHOOSE i \in 0..Len(text) : ByteOffset(text, i) = end
         IN  Value(SubSeq(text, from + 1, to))
    ELSE Panicked

K_select == <<"s", "e", "l", "e", "c", "t">>
K_from == <<"f", "r", "o", "m">>
K_where == <<"w", "h", "e", "r", "e">>
K_limit == <<"l", "i", "m", "i", "t">>
K_offset == <<"o", "f", "f", "s", "e", "t">>
K_order == <<"o", "r", "d", "e", "r">>
K_by == <<"b", "y">>

resolve_symbol_kind(literal) ==
    CASE literal = K_select -> "Select"
      [] literal = K_from -> "From"
      [] literal = K_where -> "Where"
      [] literal = K_limit -> "Limit"
      [] literal = K_offset -> "Offset"
      [] literal = K_order -> "Order"
      [] literal = K_by -> "By"
      [] OTHER -> "Symbol"

Location(start, end) == [start |-> start, end |-> end]
Token(location, kind, literal) ==
    [location |-> location, kind |-> kind, literal |-> literal]
GQLError(message, location) == [message |-> message, location |-> location]

\* what tokenize returns: Ok(tokens), Err(error), or a panic
Running == [kind |-> "Running"]
Ok(toks) == [kind |-> "Ok", tokens |-> toks]
Err(error) == [kind |-> "Err", error |-> error]
Panic == [kind |-> "Panic"]

\* while position < len && characters[position] is in class { position += 1 }
RECURSIVE ScanWhile(_, _, _)
ScanWhile(text, pos, class) ==
    IF pos < Len(text) /\ text[pos + 1] \in class
    THEN ScanWhile(text, pos + 1, class)
    ELSE pos

\* while position < len && characters[position] != '"' { position += 1 }
RECURSIVE ScanToQuote(_, _)
ScanToQuote(text, pos) ==
    IF pos < Len(text) /\ text[pos + 1] # "\""
    THEN ScanToQuote(text, pos + 1)
    ELSE pos

\* every character of CodePoint
Characters ==
    Alphabetic \cup Numeric
    \cup {"\"", "*", "|", "&", ",", "=", " ", "\n", "\t", "#", "(", ")"}

\* the characters the enumerated scripts are made of
Alphabet ==
    {"b", "y", "U+00E9", "1", "\"", "*", "|", "&", ",", "=", " ", "#"}
\* "select # 1"
SelectHash1 == <<"s", "e", "l", "e", "c", "t", " ", "#", " ", "1">>
\* the letter e with acute, then "b,by"
EAcuteBCommaBy == <<"U+00E9", "b", ",", "b", "y">>
Scripts == BoundedSeq(Alphabet, MaxScript) \cup {SelectHash1, EAcuteBCommaBy}

PipeIdle ==
    /\ objects = <<>>
    /\ status = "ok"
    /\ pre = <<>>
    /\ last = NoStatement
    /\ base = <<>>
    /\ history = <<>>
    /\ source_calls = <<>>
    /\ fetched = <<>>

\* tokenize(script) is called
TokInit ==
    /\ script \in Scripts
    /\ position = 0
    /\ column_start = 0
    /\ tokens = <<>>
    /\ iterations = 0
    /\ returned = Running
    /\ PipeIdle
    /\ ExprIdle

\* one iteration of the scan loop begins on char
Iteration(char) ==
    /\ returned = Running
    /\ position < Len(script)
    /\ char = script[position + 1]
    /\ column_start' = position
    /\ iterations' = iterations + 1
    /\ UNCHANGED <<script, pipeVars, exprVars>>

\* the iteration pushes token and leaves the cursor at pos
Push(token, pos) ==
    /\ tokens' = Append(tokens, token)
    /\ position' = pos
    /\ UNCHANGED returned

\* a panic or a return ends the call; the tokens vector goes with it
Return(result) ==
    /\ returned' = result
    /\ tokens' = <<>>
    /\ UNCHANGED position

\* the iteration pushes the token of a run that ends at pos, its literal
\* sliced out of the script
PushSlice(literal, kind, pos) ==
    IF literal.panic THEN Return(Panic)
    ELSE Push(Token(Location(column_start', pos), kind, literal.value), pos)

TokenizeSymbol ==
    \E char \in Alphabetic :
        /\ Iteration(char)
        /\ LET pos == ScanWhile(script, position, Alphabetic)
               literal == Slice(script, position, pos)
           IN  PushSlice(literal, resolve_symbol_kind(literal.value), pos)

TokenizeNumber ==
    \E char \in Numeric \ Alphabetic :
        /\ Iteration(char)
        /\ LET pos == ScanWhile(script, position, Numeric)
           IN  PushSlice(Slice(script, position, pos), "Number", pos)

TokenizeString ==
    /\ Iteration("\"")
    /\ LET pos == ScanToQuote(script, position + 1) + 1
       IN  PushSlice(Slice(script, position + 1, pos - 1), "String", pos)

\* a one-character token whose location ends after the character
PunctuationToken_wide(kind, literal) ==
    Token(Location(column_start', position + 1), kind, literal)

\* a one-character token: its location is built before the cursor moves
PunctuationToken(kind, literal) ==
    Token(Location(column_start', position), kind, literal)

TokenizeStar ==
    /\ Iteration("*")
    /\ Push(PunctuationToken("Star", <<"*">>), position + 1)

TokenizeOr ==
    /\ Iteration("|")
    /\ Push(PunctuationToken("Or", <<"|">>), position + 1)

TokenizeAnd ==
    /\ Iteration("&")
    /\ Push(PunctuationToken("And", <<"&">>), position + 1)

TokenizeComma ==
    /\ Iteration(",")
    /\ Push(PunctuationToken("Comma", <<",">>), position + 1)

TokenizeEqual ==
    /\ Iteration("=")
    /\ Push(PunctuationToken("Equal", <<"=">>), position + 1)

Ignore ==
    \E char \in {" ", "\n", "\t"} :
        /\ Iteration(char)
        /\ position' = position + 1
        /\ UNCHANGED <<tokens, returned>>

\* an iteration that skips the character it does not recognise
UnexpectedCharacter_skip ==
    \E char \in Characters :
        /\ ~is_alphabetic(char) /\ ~is_numeric(char)
        /\ char \notin {"\"", "*", "|", "&", ",", "=", " ", "\n", "\t"}
        /\ Iteration(char)
        /\ position' = position + 1
        /\ UNCHANGED <<tokens, returned>>

UnexpectedCharacter ==
    \E char \in Characters :
        /\ ~is_alphabetic(char) /\ ~is_numeric(char)
        /\ char \notin {"\"", "*", "|", "&", ",", "=", " ", "\n", "\t"}
        /\ Iteration(char)
        /\ Return(Err(GQLError("Un expected character",
                               Location(column_start', position))))

\* the loop ends: return Ok(tokens)
Finish ==
    /\ returned = Running
    /\ position >= Len(script)
    /\ Return(Ok(tokens))
    /\ UNCHANGED <<script, column_start, iterations, pipeVars, exprVars>>

TokNext ==
    \/ TokenizeSymbol \/ TokenizeNumber \/ TokenizeString
    \/ TokenizeStar \/ TokenizeOr \/ TokenizeAnd \/ TokenizeComma
    \/ TokenizeEqual \/ Ignore \/ UnexpectedCharacter \/ Finish

TokSpec == TokInit /\ [][TokNext]_vars

-----------------------------------------------------------------------------
(* Claims about the tokenizer *)

\* the characters no branch of the scan recognises
Unrecognised ==
    Characters \ (Alphabetic \cup Numeric
                  \cup {"\"", "*", "|", "&", ",", "=", " ", "\n", "\t"})

\* C10: when the scan meets a character that is not alphabetic, numeric, a
\* double quote, one of * | & , = or a space, newline or tab, tokenize
\* returns an error whose location starts at the index of that character,
\* and no tokens; an error is returned in no other case; "select # 1" fails
\* with start 7, the index of '#'.
C10_UnexpectedCharacter ==
    /\ [][(/\ returned = Running
           /\ position < Len(script)
           /\ script[position + 1] \in Unrecognised)
            => (/\ returned'.kind = "Err"
                /\ DOMAIN returned' = {"kind", "error"}
                /\ returned'.error.location.start = position)]_vars
    /\ [](returned.kind = "Err"
            => /\ returned.error.location.start < Len(script)
               /\ script[returned.error.location.start + 1] \in Unrecognised)
    /\ []((script = SelectHash1 /\ returned # Running)
            => (returned.kind = "Err" /\ returned.error.location.start = 7))

C10_Witness ==
    /\ script = SelectHash1
    /\ returned.kind = "Err"
    /\ iterations = 3

-----------------------------------------------------------------------------
(* One expression evaluated against one record: ExprSpec *)

Digits == {"0", "1", "9"}
Ten == <<"1", "0">>
OpenGroup == <<"(">>
OpenGroup1 == <<"(", "1">>
Group1 == <<"(", "1", ")">>
Padded1 == <<" ", "1", " ">>
TrueSpace == <<"t", "r", "u", "e", " ">>
\* the texts of string literals
Texts ==
    BoundedSeq(Digits, MaxText)
    \cup {T_true, T_false, TrueSpace, OpenGroup, OpenGroup1, Group1, Padded1}

FunctionNames == TransformationNames \cup {"no_such_function"}

\* literals and field references
Leaves ==
    {StringExpression(text) : text \in Texts}
    \cup {SymbolExpression(name) : name \in FieldNames}

Calls ==
    {CallExpression(left, name) : left \in Leaves, name \in FunctionNames}

\* the operands of the logical expressions
Operands ==
    { StringExpression(T_true), StringExpression(T_false),
      StringExpression(<<"1">>), SymbolExpression("id"),
      SymbolExpression("name"), NotExpression(SymbolExpression("name")),
      CallExpression(StringExpression(T_true), "no_such_function") }

Logicals ==
    {LogicalExpression(left, operator, right) :
        left \in Operands, operator \in LogicalOperator, right \in Operands}

\* expressions around a logical expression or a call
Enclosing(e) ==
    { NotExpression(e),
      CallExpression(e, "trim"),
      ComparisonExpression(e, "Equal", StringExpression(T_true)),
      CheckExpression(StringExpression(T_true), "Contains", e),
      LogicalExpression(e, "Xor", StringExpression(T_true)),
      LogicalExpression(StringExpression(T_false), "Or", e),
      LogicalExpression(StringExpression(T_false), "And", e) }

Expressions ==
    Leaves
    \cup {NotExpression(right) : right \in Leaves}
    \cup {ComparisonExpression(left, operator, right) :
            left \in Leaves, operator \in ComparisonOperator, right \in Leaves}
    \cup {CheckExpression(left, operator, right) :
            left \in Leaves, operator \in CheckOperator, right \in Leaves}
    \cup Logicals
    \cup Calls
    \cup UNION {Enclosing(e) : e \in Logicals \cup Calls}

\* the records an expression is evaluated against
ExprRecords == {R1t, R10f, Rabc}

ExprInit ==
    /\ expression \in Expressions
    /\ record \in ExprRecords
    /\ evaluated = NotEvaluated
    /\ objects = <<record>>
    /\ status = "ok"
    /\ pre = <<>>
    /\ last = NoStatement
    /\ base = <<>>
    /\ history = <<>>
    /\ source_calls = <<>>
    /\ fetched = <<>>
    /\ TokIdle

\* expression.evaluate(&record) returns or panics
Evaluate ==
    /\ evaluated = NotEvaluated
    /\ evaluated' = evaluate(expression, record)
    /\ UNCHANGED <<expression, record>>

EvaluateString ==
    /\ expression.type = "String"
    /\ Evaluate
    /\ UNCHANGED <<pipeVars, tokVars>>

EvaluateSymbol ==
    /\ expression.type = "Symbol"
    /\ Evaluate
    /\ UNCHANGED <<pipeVars, tokVars>>

EvaluateNot ==
    /\ expression.type = "Not"
    /\ Evaluate
    /\ UNCHANGED <<pipeVars, tokVars>>

EvaluateComparison ==
    /\ expression.type = "Comparison"
    /\ Evaluate
    /\ UNCHANGED <<pipeVars, tokVars>>

EvaluateCheck ==
    /\ expression.type = "Check"
    /\ Evaluate
    /\ UNCHANGED <<pipeVars, tokVars>>

EvaluateLogical ==
    /\ expression.type = "Logical"
    /\ Evaluate
    /\ UNCHANGED <<pipeVars, tokVars>>

EvaluateCall ==
    /\ expression.type = "Call"
    /\ Evaluate
    /\ UNCHANGED <<pipeVars, tokVars>>

\* a Where statement with the expression as its condition runs on the
\* buffer that holds the record
ExprWhere ==
    /\ last = NoStatement
    /\ ExecuteShrink(WhereStatement(expression),
                     WhereStatement_execute(expression, objects))
    /\ UNCHANGED <<base, history>>

ExprNext ==
    \/ EvaluateString \/ EvaluateSymbol \/ EvaluateNot \/ EvaluateComparison
    \/ EvaluateCheck \/ EvaluateLogical \/ EvaluateCall \/ ExprWhere

ExprSpec == ExprInit /\ [][ExprNext]_vars

-----------------------------------------------------------------------------
(* The claims about the tokenizer and the expressions *)

PunctuationKinds == {"Star", "Or", "And", "Comma", "Equal"}
Punctuation == {"*", "|", "&", ",", "="}
Quote == <<"\"">>

\* the text between the character offsets start and end
Between(text, start, end) == SubSeq(text, start + 1, end)

\* C11: for every token of a successful tokenize, the text between
\* location.start and location.end is the token's literal (Symbol, keyword
\* and Number tokens) or the literal between two quote characters (String
\* tokens); the one-character punctuation tokens are exempt.
C11_RoundTrip ==
    returned.kind = "Ok"
        => \A i \in 1..Len(returned.tokens) :
              LET token == returned.tokens[i]
                  start == token.location.start
                  end == token.location.end
              IN  \/ token.kind \in PunctuationKinds
                  \/ /\ start <= end
                     /\ end <= Len(script)
                     /\ Between(script, start, end) =
                          IF token.kind = "String"
                          THEN Quote \o token.literal \o Quote
                          ELSE token.literal

\* the kind the keyword table gives a run
KeywordKind(run) ==
    LET table == { <<K_select, "Select">>, <<K_from, "From">>,
                   <<K_where, "Where">>, <<K_limit, "Limit">>,
                   <<K_offset, "Offset">>, <<K_order, "Order">>,
                   <<K_by, "By">> }
    IN  IF \E entry \in table : entry[1] = run
        THEN (CHOOSE entry \in table : entry[1] = run)[2]
        ELSE "Symbol"

\* the index after the maximal alphabetic run that starts at index start
RunEnd(text, start) ==
    CHOOSE end \in start..Len(text) :
        /\ \A i \in (start + 1)..end : text[i] \in Alphabetic
        /\ end = Len(text) \/ text[end + 1] \notin Alphabetic

\* C12: the token an iteration pushes for a maximal alphabetic run has the
\* keyword kind of the run when the run is one of select, from, where,
\* limit, offset, order, by, and the kind Symbol for every other run.
C12_KeywordKinds ==
    [][(/\ returned = Running
        /\ position < Len(script)
        /\ script[position + 1] \in Alphabetic
        /\ returned' = Running)
         => /\ Len(tokens') = Len(tokens) + 1
            /\ tokens'[Len(tokens')].kind =
                 KeywordKind(Between(script, position, RunEnd(script, position)))]_vars

\* the kind of each punctuation character
KindOf(c) ==
    CASE c = "*" -> "Star" [] c = "|" -> "Or" [] c = "&" -> "And"
      [] c = "," -> "Comma" [] c = "=" -> "Equal"

\* C13: an iteration that starts on one of * | & , = pushes exactly one
\* token, of the kind of the character, whose literal is the character and
\* whose location has start = end = the index of the character; so has every
\* such token of a successful tokenize.
C13_PunctuationTokens ==
    /\ [][(/\ returned = Running
           /\ position < Len(script)
           /\ script[position + 1] \in Punctuation)
            => /\ returned' = Running
               /\ position' = position + 1
               /\ tokens' = Append(tokens,
                     [location |-> [start |-> position, end |-> position],
                      kind |-> KindOf(script[position + 1]),
                      literal |-> <<script[position + 1]>>])]_vars
    /\ [](returned.kind = "Ok"
            => \A i \in 1..Len(returned.tokens) :
                  LET token == returned.tokens[i]
                  IN  token.kind \in PunctuationKinds
                        => /\ token.location.start = token.location.end
                           /\ token.location.start < Len(script)
                           /\ token.literal = <<script[token.location.start + 1]>>
                           /\ token.kind = KindOf(script[token.location.start + 1]))

C13_Witness ==
    /\ returned.kind = "Ok"
    /\ Len(returned.tokens) = 3
    /\ returned.tokens[1].kind = "Symbol"
    /\ returned.tokens[2].kind = "Comma"
    /\ returned.tokens[2].location = [start |-> 2, end |-> 2]
    /\ returned.tokens[3].kind = "Symbol"

\* the expression has been evaluated and both operands of it returned
BothReturned ==
    /\ evaluated # NotEvaluated
    /\ ~evaluate(expression.left, record).panic
    /\ ~evaluate(expression.right, record).panic

\* C14: a logical expression whose left operand returns a text other than
\* "true" under and, or the text "true" under or, returns "false"
\* respectively "true" whatever the right operand is, also when evaluating
\* the right operand would fail; under xor a failing right operand always
\* makes the expression fail.
C14_ShortCircuit ==
    (/\ expression.type = "Logical"
     /\ evaluated # NotEvaluated
     /\ ~evaluate(expression.left, record).panic)
        => LET left == evaluate(expression.left, record).value
               right == evaluate(expression.right, record)
           IN  /\ (expression.operator = "And" /\ left # T_true)
                    => evaluated = [panic |-> FALSE, value |-> T_false]
               /\ (expression.operator = "Or" /\ left = T_true)
                    => evaluated = [panic |-> FALSE, value |-> T_true]
               /\ (expression.operator = "Xor" /\ right.panic)
                    => evaluated.panic

C14_Witness ==
    /\ expression.type = "Logical"
    /\ expression.operator = "And"
    /\ evaluate(expression.left, record) = [panic |-> FALSE, value |-> <<"1">>]
    /\ evaluate(expression.right, record).panic
    /\ evaluated = [panic |-> FALSE, value |-> T_false]

\* a is before b in the dictionary order of the characters
LexLess(a, b) ==
    \E k \in 0..Min(Len(a), Len(b)) :
        /\ SubSeq(a, 1, k) = SubSeq(b, 1, k)
        /\ \/ k = Len(a) /\ k < Len(b)
           \/ /\ k < Len(a)
              /\ k < Len(b)
              /\ CodePoint(a[k + 1]) < CodePoint(b[k + 1])

\* the comparison operator on two texts in the dictionary order
LexHolds(operator, a, b) ==
    CASE operator = "Greater" -> LexLess(b, a)
      [] operator = "GreaterEqual" -> ~LexLess(a, b)
      [] operator = "Less" -> LexLess(a, b)
      [] operator = "LessEqual" -> ~LexLess(b, a)
      [] operator = "Equal" -> a = b
      [] operator = "NotEqual" -> a # b

NineLessThanTen ==
    [type |-> "Comparison", left |-> [type |-> "String", value |-> <<"9">>],
     operator |-> "Less", right |-> [type |-> "String", value |-> <<"1", "0">>]]

\* C15: a comparison returns "true" exactly when its operator holds of the
\* two operand texts in the dictionary order of their characters, never in
\* the numeric order: "9" < "10" is "false".
C15_Lexicographic ==
    /\ (expression.type = "Comparison" /\ BothReturned)
          => evaluated.value =
               IF LexHolds(expression.operator,
                           evaluate(expression.left, record).value,
                           evaluate(expression.right, record).value)
               THEN T_true ELSE T_false
    /\ (expression = NineLessThanTen /\ evaluated # NotEvaluated)
          => evaluated = [panic |-> FALSE, value |-> T_false]

C15_Witness ==
    /\ expression = NineLessThanTen
    /\ evaluated = [panic |-> FALSE, value |-> T_false]

\* C16: a negation returns "false" when the text its operand returns
\* is exactly "true", and "true" for every other text.
C16_Negation ==
    (/\ expression.type = "Not"
     /\ evaluated # NotEvaluated
     /\ ~evaluate(expression.right, record).panic)
        => evaluated =
             [panic |-> FALSE,
              value |-> IF evaluate(expression.right, record).value = T_true
                        THEN T_false ELSE T_true]

C16_Witness ==
    /\ expression.type = "Not"
    /\ evaluate(expression.right, record).value = TrueSpace
    /\ evaluated = [panic |-> FALSE, value |-> T_true]

\* patterns that are not regular expressions: a group is left open
InvalidPatterns == {<<"(">>, <<"(", "1">>}

\* C17: a matches check whose pattern is not a valid regular expression,
\* such as "(", returns "false" for every left value and does not fail.
C17_InvalidPattern ==
    (/\ expression.type = "Check"
     /\ expression.operator = "Matches"
     /\ BothReturned
     /\ evaluate(expression.right, record).value \in InvalidPatterns)
        => evaluated = [panic |-> FALSE, value |-> T_false]

C17_Witness ==
    /\ expression.type = "Check"
    /\ expression.operator = "Matches"
    /\ evaluate(expression.left, record).value = <<"(", "1">>
    /\ evaluate(expression.right, record).value = <<"(">>
    /\ evaluated = [panic |-> FALSE, value |-> T_false]

\* the operands e evaluates itself against r
EvaluatedOperands(e, r) ==
    CASE e.type = "Not" -> {e.right}
      [] e.type \in {"Comparison", "Check"} -> {e.left, e.right}
      [] e.type = "Call" -> {e.left}
      [] e.type = "Logical" ->
            LET left == evaluate(e.left, r)
            IN  IF \/ left.panic
                   \/ e.operator = "And" /\ left.value # T_true
                   \/ e.operator = "Or" /\ left.value = T_true
                THEN {e.left}
                ELSE {e.left, e.right}
      [] OTHER -> {}

\* C18: evaluating a reference to a field the record lacks, or a call of a
\* function name that is not registered, fails; an expression fails when an
\* operand it evaluates fails; a Where statement whose condition fails on a
\* record of the buffer fails, so the query has no result.
C18_FailurePropagates ==
    /\ evaluated # NotEvaluated
          => /\ (expression.type = "Symbol"
                    /\ expression.value[1] \notin DOMAIN record)
                   => evaluated.panic
             /\ (expression.type = "Call"
                    /\ expression.function_name = "no_such_function")
                   => evaluated.panic
             /\ \A operand \in EvaluatedOperands(expression, record) :
                   evaluate(operand, record).panic => evaluated.panic
    /\ (last.kind = "Where" /\ evaluate(last.condition, pre[1]).panic)
          => status = "panic"

C18_Witness ==
    /\ expression.type = "Not"
    /\ expression.right.type = "Call"
    /\ expression.right.function_name = "trim"
    /\ expression.right.left = [type |-> "Symbol", value |-> <<"id">>]
    /\ record = [name |-> <<"a", "b", "c">>]
    /\ evaluated.panic
    /\ last.kind = "Where"
    /\ status = "panic"

\* C19: every token of a successful tokenize has a location inside the
\* input: start <= end <= the number of characters of the input, also when
\* the input has a double quote with no closing quote.
C19_SpansInside ==
    returned.kind = "Ok"
        => \A i \in 1..Len(returned.tokens) :
              /\ returned.tokens[i].location.start <= returned.tokens[i].location.end
              /\ returned.tokens[i].location.end <= Len(script)

=============================================================================
